---- MODULE Spec2Model ----
(***************************************************************************)
(* Model of FaultTolerantHdfsAccessor (hdfs-mount): the per-call retry     *)
(* loop that decorates every HdfsAccessor operation, and the wrapping of   *)
(* opened streams.  RetryPolicy / Op, IsSuccessOrBenignError and the       *)
(* FaultTolerantHdfsReader live in other files of the repository and are   *)
(* modelled from their documented contract.                                *)
(***************************************************************************)
EXTENDS Integers, Sequences, FiniteSets, TLC

(* ---------------------------- bounds ----------------------------------- *)
\* RetryPolicy.MaxAttempts: the attempt budget of one Operation
MaxAttempts == 3

\* attempt budget of the policy of an inner (wrapped) fault tolerant accessor
InnerMaxAttempts == 2

\* most Write/Close calls on one writer, or reads on one raw stream
MaxStreamCalls == 2

\* most mid-stream read failures injected into one reader
MaxFaults == 2

\* largest buffer a caller passes to Read
MaxBuf == 2

(* ---------------------------- universe --------------------------------- *)
\* concurrent callers (goroutines) of one FaultTolerantHdfsAccessor
Callers == {"t1", "t2"}

Paths == {"/a", "/b"}

Ops == {"EnsureConnected", "OpenRead", "OpenReadForRandomAccess",
        "OpenWrite", "ReadDir", "Stat", "Mkdir"}

\* operations whose success path is tested with err == nil before the
\* benign test, and whose failing return drops the result
OpenOps == {"OpenRead", "OpenReadForRandomAccess", "OpenWrite"}

\* operations that return only an error
NoPayloadOps == {"EnsureConnected", "Mkdir"}

\* contents of the remote files, one distinct byte value per position
File(p) ==
    CASE p = "/a" -> <<11, 12, 13>>
      [] p = "/b" -> <<21, 22, 23>>
      [] OTHER -> <<>>

Nil == [kind |-> "nil", by |-> "none", seq |-> 0]

NilVal == [isnil |-> TRUE]

NoOp == [id |-> <<"none", 0>>, Attempt |-> 0]

NoRet == [returned |-> FALSE]

NoReader == [state |-> "none"]

NoWriter == [state |-> "none"]

\* nothing forwarded to a raw stream yet
NoFwd == [calls |-> 0, rawCalls |-> 0, last |-> "none", rawErr |-> Nil, err |-> Nil]

\* no call in progress on the nested pair of accessors
NestIdle == [pc |-> "idle", o |-> "none", pl |-> [k |-> 0, final |-> "nil"],
             oop |-> NoOp, iop |-> NoOp, raw |-> 0, inner |-> 0,
             ires |-> [val |-> NilVal, size |-> 0], ierr |-> Nil,
             ores |-> [val |-> NilVal, size |-> 0], oerr |-> Nil,
             ret |-> NoRet]

\* the benign end-of-file outcome of a raw read
EOF == [kind |-> "benign", by |-> "eof", seq |-> 0]

\* the caller that goes on to use the reader it opened
ReaderUser == "t1"

\* behaviour of the wrapped accessor during one logical call: it fails k
\* times with a retryable error, then keeps answering with `final`
Plans == {[k |-> n, final |-> f] : n \in 0..MaxAttempts, f \in {"nil", "benign"}}
            \cup {[k |-> 0, final |-> "retryable"]}

VARIABLES
    pc,        \* position of each caller inside the method it runs
    opName,    \* the method being run
    path,      \* its path argument
    plan,      \* what the wrapped accessor will answer during this call
    op,        \* the local variable `op` of each call frame
    result,    \* the local variable `result` (reader, size) of the frame
    err,       \* the local variable `err` of the frame
    ret,       \* what the method returned to its caller
    started,   \* history: StartOperation invocations of this call
    implLog,   \* history: the calls made on this.Impl by this call
    consults,  \* history: ShouldRetry consultations of this call
    asked,     \* history: ids of the Operations that were consulted
    declinedAt,\* history: number of Impl calls made when ShouldRetry said no
    wrappers,  \* history: stream wrappers constructed by this call
    rd,        \* the FaultTolerantHdfsReader object held by each caller
    rpc,       \* position of the caller inside the reader's Read
    rn,        \* length of the buffer passed to Read
    rop,       \* the Operation of the running Read
    rret,      \* what Read returned
    rawPos,    \* position of the reader's current raw stream
    live,      \* raw streams opened for the caller and not yet closed
    delivered, \* history: the bytes Read has handed to the caller
    faults,    \* history: mid-stream failures so far
    skips,     \* history: one entry per successful reopen
    wr,        \* the FaultTolerantHdfsWriter object held by each caller
    fwd,       \* history: calls forwarded to the raw stream a caller holds
    trace,     \* history: the events of the running call, in order
    nest       \* a call on an accessor that wraps another fault tolerant one

accVars == <<pc, opName, path, plan, op, result, err, ret, started, implLog,
             consults, asked, declinedAt, wrappers>>

readVars == <<rpc, rn, rop, rret, rawPos, delivered, faults, skips>>

auxVars == <<wr, fwd, trace, nest>>

vars == <<accVars, rd, live, readVars, auxVars>>

(* ------------------- consumed collaborators ---------------------------- *)
\* errors.go: nil and semantically final errors are not worth retrying
IsSuccessOrBenignError(e) == e.kind \in {"nil", "benign"}

\* RetryPolicy.StartOperation: a fresh Operation at its first attempt
StartOperation(id) == [id |-> id, Attempt |-> 1]

\* Op.ShouldRetry: yes while the attempt budget lasts, counting the attempt
ShouldRetry(o) ==
    IF o.Attempt < MaxAttempts
    THEN [retry |-> TRUE, op |-> [o EXCEPT !.Attempt = o.Attempt + 1]]
    ELSE [retry |-> FALSE, op |-> o]

\* Op.ShouldRetry of an Operation whose policy allows `budget` attempts
ShouldRetryWithin(o, budget) ==
    IF o.Attempt < budget
    THEN [retry |-> TRUE, op |-> [o EXCEPT !.Attempt = o.Attempt + 1]]
    ELSE [retry |-> FALSE, op |-> o]

\* constructor of the reader wrapper: the stream starts at logical offset 0
NewFaultTolerantHdfsReader(p, impl, accessor, policy) ==
    [Path |-> p, Impl |-> impl, HdfsAccessor |-> accessor,
     RetryPolicy |-> policy, Offset |-> 0]

\* the wrapped accessor answering the i-th call of caller c's logical call
ImplCall(c, o, p, pl, i) ==
    LET kind == IF i <= pl.k THEN "retryable" ELSE pl.final
        hasPayload == o \notin NoPayloadOps
    IN  [err  |-> IF kind = "nil" THEN Nil
                  ELSE [kind |-> kind, by |-> c, seq |-> i],
         val  |-> IF hasPayload THEN [by |-> c, seq |-> i, path |-> p]
                  ELSE NilVal,
         size |-> IF o = "OpenReadForRandomAccess" THEN Len(File(p)) ELSE 0]

(* ------------------- FaultTolerantHdfsAccessor ------------------------- *)
\* mutant: the Operation is kept in one place shared by all calls
OpVarShared(c) == "t1"

\* the frame that holds the Operation of caller c: a local variable
OpVar(c) == c

\* mutant: the loop encloses the StartOperation statement
LoopTargetStart == "start"

\* where the `for` loop jumps back to
LoopTarget == "attempt"

\* mutant: a nil error is not exempted by the generic test
ReturnsEarlyOnlyBenign(o, e) ==
    IF o \in OpenOps
    THEN e = Nil \/ e.kind = "benign"
    ELSE e.kind = "benign"

\* mutant: only a nil error is exempted
ReturnsEarlyOnlyNil(o, e) == e = Nil

\* mutant: the open methods test err == nil and forget the benign test
ReturnsEarlyOpenOnlyNil(o, e) ==
    IF o \in OpenOps
    THEN e = Nil
    ELSE IsSuccessOrBenignError(e)

\* mutant: a nil error does not end the loop of any method
ReturnsEarlyNeverNil(o, e) == e.kind = "benign"

\* the tests that return without asking the Operation
ReturnsEarly(o, e) ==
    IF o \in OpenOps
    THEN e = Nil \/ IsSuccessOrBenignError(e)
    ELSE IsSuccessOrBenignError(e)

\* mutant: the negation of ShouldRetry is missing
ExitsLoopNoNegation(o, e, retry) == ReturnsEarly(o, e) \/ retry

\* mutant: the answer of ShouldRetry is ignored
ExitsLoopIgnoresAnswer(o, e, retry) == ReturnsEarly(o, e)

\* mutant: the method returns once it has asked, whatever the answer
ExitsLoopAlways(o, e, retry) == TRUE

\* the loop's exit condition: IsSuccessOrBenignError(err) || !op.ShouldRetry
ExitsLoop(o, e, retry) == ReturnsEarly(o, e) \/ ~retry

\* mutant: the reader is given the fault tolerant accessor itself
WrapReaderSelf(p, res) ==
    NewFaultTolerantHdfsReader(p, res, "this", "RetryPolicy")

\* mutant: the reader is given a fixed path instead of the caller's
WrapReaderFixedPath(p, res) ==
    NewFaultTolerantHdfsReader("/a", res, "Impl", "RetryPolicy")

\* the wrapper handed out by a successful OpenRead
WrapReader(p, res) ==
    NewFaultTolerantHdfsReader(p, res, "Impl", "RetryPolicy")

\* mutant: the writer also keeps the retry policy
WrapWriterKeepsPolicy(res) == [Impl |-> res, RetryPolicy |-> "RetryPolicy"]

\* the wrapper handed out by a successful OpenWrite
WrapWriter(res) == [Impl |-> res]

Return(v, s, e) == [returned |-> TRUE, val |-> v, size |-> s, err |-> e]

\* mutant: a failing return wraps the error in a new error value
ReturnValueWrapsErr(o, p, r, e) ==
    LET w == IF e = Nil THEN Nil ELSE [e EXCEPT !.kind = "wrapped"]
    IN  CASE o = "OpenRead" ->
               IF e = Nil THEN Return(WrapReader(p, r.val), 0, Nil)
               ELSE Return(NilVal, 0, w)
          [] o = "OpenWrite" ->
               IF e = Nil THEN Return(WrapWriter(r.val), 0, Nil)
               ELSE Return(NilVal, 0, w)
          [] o = "OpenReadForRandomAccess" ->
               IF e = Nil THEN Return(r.val, r.size, Nil)
               ELSE Return(NilVal, 0, w)
          [] o \in {"ReadDir", "Stat"} -> Return(r.val, 0, w)
          [] OTHER -> Return(NilVal, 0, w)

\* mutant: the random access stream is wrapped like a sequential reader
ReturnValueWrapsRandom(o, p, r, e) ==
    CASE o = "OpenRead" ->
           IF e = Nil THEN Return(WrapReader(p, r.val), 0, Nil)
           ELSE Return(NilVal, 0, e)
      [] o = "OpenWrite" ->
           IF e = Nil THEN Return(WrapWriter(r.val), 0, Nil)
           ELSE Return(NilVal, 0, e)
      [] o = "OpenReadForRandomAccess" ->
           IF e = Nil THEN Return(WrapReader(p, r.val), r.size, Nil)
           ELSE Return(NilVal, 0, e)
      [] o \in {"ReadDir", "Stat"} -> Return(r.val, 0, e)
      [] OTHER -> Return(NilVal, 0, e)

\* mutant: a failing open returns what the attempt returned with its error
ReturnValueKeepsResult(o, p, r, e) ==
    CASE o = "OpenRead" ->
           IF e = Nil THEN Return(WrapReader(p, r.val), 0, Nil)
           ELSE Return(r.val, 0, e)
      [] o = "OpenWrite" ->
           IF e = Nil THEN Return(WrapWriter(r.val), 0, Nil)
           ELSE Return(r.val, 0, e)
      [] o = "OpenReadForRandomAccess" ->
           IF e = Nil THEN Return(r.val, r.size, Nil)
           ELSE Return(r.val, r.size, e)
      [] o \in {"ReadDir", "Stat"} -> Return(r.val, 0, e)
      [] OTHER -> Return(NilVal, 0, e)

\* the values of the return statements
ReturnValue(o, p, r, e) ==
    CASE o = "OpenRead" ->
           IF e = Nil THEN Return(WrapReader(p, r.val), 0, Nil)
           ELSE Return(NilVal, 0, e)
      [] o = "OpenWrite" ->
           IF e = Nil THEN Return(WrapWriter(r.val), 0, Nil)
           ELSE Return(NilVal, 0, e)
      [] o = "OpenReadForRandomAccess" ->
           IF e = Nil THEN Return(r.val, r.size, Nil)
           ELSE Return(NilVal, 0, e)
      [] o \in {"ReadDir", "Stat"} -> Return(r.val, 0, e)
      [] OTHER -> Return(NilVal, 0, e)

IsWrapper(v) == "Impl" \in DOMAIN v

Init ==
    /\ pc = [c \in Callers |-> "idle"]
    /\ opName = [c \in Callers |-> "none"]
    /\ path = [c \in Callers |-> "none"]
    /\ plan = [c \in Callers |-> [k |-> 0, final |-> "nil"]]
    /\ op = [c \in Callers |-> NoOp]
    /\ result = [c \in Callers |-> [val |-> NilVal, size |-> 0]]
    /\ err = [c \in Callers |-> Nil]
    /\ ret = [c \in Callers |-> NoRet]
    /\ started = [c \in Callers |-> 0]
    /\ implLog = [c \in Callers |-> <<>>]
    /\ consults = [c \in Callers |-> 0]
    /\ asked = [c \in Callers |-> {}]
    /\ declinedAt = [c \in Callers |-> 0]
    /\ wrappers = [c \in Callers |-> 0]
    /\ rd = [c \in Callers |-> NoReader]
    /\ rpc = [c \in Callers |-> "idle"]
    /\ rn = [c \in Callers |-> 0]
    /\ rop = [c \in Callers |-> NoOp]
    /\ rret = [c \in Callers |-> NoRet]
    /\ rawPos = [c \in Callers |-> 0]
    /\ live = [c \in Callers |-> {}]
    /\ delivered = [c \in Callers |-> <<>>]
    /\ faults = [c \in Callers |-> 0]
    /\ skips = [c \in Callers |-> <<>>]
    /\ wr = [c \in Callers |-> NoWriter]
    /\ fwd = [c \in Callers |-> NoFwd]
    /\ trace = [c \in Callers |-> <<>>]
    /\ nest = NestIdle

\* caller c enters method o with argument p; pl is what the wrapped
\* accessor will answer
Enter(c, o, p, pl) ==
    /\ pc[c] = "idle"
    /\ opName' = [opName EXCEPT ![c] = o]
    /\ path' = [path EXCEPT ![c] = p]
    /\ plan' = [plan EXCEPT ![c] = pl]
    /\ pc' = [pc EXCEPT ![c] = "start"]
    /\ UNCHANGED <<op, result, err, ret, started, implLog, consults, asked,
                   declinedAt, wrappers, rd, live, readVars, auxVars>>

\* the path arguments a method can be given (EnsureConnected takes none)
PathArgs(o) == IF o = "EnsureConnected" THEN {"none"} ELSE Paths

\* a caller enters one of the seven methods
Call(c) == \E o \in Ops, pl \in Plans : \E p \in PathArgs(o) : Enter(c, o, p, pl)

\* a caller enters OpenWrite
CallOpenWrite(c) == \E p \in Paths, pl \in Plans : Enter(c, "OpenWrite", p, pl)

\* a caller enters OpenReadForRandomAccess
CallOpenRandom(c) ==
    \E p \in Paths, pl \in Plans : Enter(c, "OpenReadForRandomAccess", p, pl)

\* a caller enters OpenRead
CallOpenRead(c) == \E p \in Paths, pl \in Plans : Enter(c, "OpenRead", p, pl)

\* op := this.RetryPolicy.StartOperation()
StartOp(c) ==
    /\ pc[c] = "start"
    /\ op' = [op EXCEPT ![OpVar(c)] = StartOperation(<<c, started[c] + 1>>)]
    /\ started' = [started EXCEPT ![c] = @ + 1]
    /\ pc' = [pc EXCEPT ![c] = "attempt"]
    /\ trace' = [trace EXCEPT ![c] = Append(@, [ev |-> "start"])]
    /\ UNCHANGED <<opName, path, plan, result, err, ret, implLog, consults,
                   asked, declinedAt, wrappers, rd, live, readVars, wr, fwd,
                   nest>>

\* result, err := this.Impl.<Method>(path)
Attempt(c) ==
    /\ pc[c] = "attempt"
    /\ LET r == ImplCall(c, opName[c], path[c], plan[c], Len(implLog[c]) + 1)
       IN  /\ result' = [result EXCEPT ![c] = [val |-> r.val, size |-> r.size]]
           /\ err' = [err EXCEPT ![c] = r.err]
           /\ implLog' = [implLog EXCEPT ![c] =
                            Append(@, [op |-> opName[c], path |-> path[c],
                                       err |-> r.err, val |-> r.val])]
           /\ live' = [live EXCEPT ![c] =
                         IF opName[c] \in OpenOps /\ r.err = Nil
                         THEN @ \cup {r.val} ELSE @]
           /\ trace' = [trace EXCEPT ![c] =
                           Append(@, [ev |-> "attempt", err |-> r.err])]
    /\ pc' = [pc EXCEPT ![c] = "decide"]
    /\ UNCHANGED <<opName, path, plan, op, ret, started, consults, asked,
                   declinedAt, wrappers, rd, readVars, wr, fwd, nest>>

\* the call op.ShouldRetry(format, path, ..., err) and its answer
ShouldRetryCall(o, p, e, answer) ==
    [ev |-> "ask", op |-> o, path |-> p, err |-> e, answer |-> answer]

\* a return statement of caller c's method
Leave(c, rv) ==
    /\ ret' = [ret EXCEPT ![c] = rv]
    /\ wrappers' = [wrappers EXCEPT ![c] =
                      @ + (IF IsWrapper(rv.val) THEN 1 ELSE 0)]
    /\ rd' = [rd EXCEPT ![c] =
                IF opName[c] = "OpenRead" /\ IsWrapper(rv.val)
                THEN [state |-> "Open"] @@ rv.val ELSE @]
    /\ wr' = [wr EXCEPT ![c] =
                IF opName[c] = "OpenWrite" /\ IsWrapper(rv.val)
                THEN rv.val ELSE @]
    /\ pc' = [pc EXCEPT ![c] = "done"]

\* the if statements of the loop body: return, or ask the Operation and
\* either return or loop
Decide(c) ==
    /\ pc[c] = "decide"
    /\ LET o  == opName[c]
           e  == err[c]
           sr == ShouldRetry(op[OpVar(c)])
           rv == ReturnValue(o, path[c], result[c], e)
       IN  IF ReturnsEarly(o, e)
           THEN /\ Leave(c, rv)
                /\ trace' = [trace EXCEPT ![c] = Append(@, [ev |-> "return"])]
                /\ UNCHANGED <<op, consults, asked, declinedAt>>
           ELSE /\ op' = [op EXCEPT ![OpVar(c)] = sr.op]
                /\ consults' = [consults EXCEPT ![c] = @ + 1]
                /\ asked' = [asked EXCEPT ![c] = @ \cup {op[OpVar(c)].id}]
                /\ declinedAt' = [declinedAt EXCEPT ![c] =
                                    IF ~sr.retry /\ @ = 0
                                    THEN Len(implLog[c]) ELSE @]
                /\ IF ExitsLoop(o, e, sr.retry)
                   THEN /\ Leave(c, rv)
                        /\ trace' = [trace EXCEPT ![c] =
                               @ \o << ShouldRetryCall(o, path[c], e, sr.retry),
                                       [ev |-> "return"] >>]
                   ELSE /\ pc' = [pc EXCEPT ![c] = LoopTarget]
                        /\ trace' = [trace EXCEPT ![c] =
                               Append(@, ShouldRetryCall(o, path[c], e, sr.retry))]
                        /\ UNCHANGED <<ret, wrappers, rd, wr>>
    /\ UNCHANGED <<opName, path, plan, result, err, started, implLog, live,
                   readVars, fwd, nest>>

\* the caller takes the return value; the frame and its Operation are gone
Finish(c) ==
    /\ pc[c] = "done"
    /\ rpc[c] = "idle"
    /\ rd' = [rd EXCEPT ![c] = NoReader]
    /\ rawPos' = [rawPos EXCEPT ![c] = 0]
    /\ live' = [live EXCEPT ![c] = {}]
    /\ delivered' = [delivered EXCEPT ![c] = <<>>]
    /\ faults' = [faults EXCEPT ![c] = 0]
    /\ skips' = [skips EXCEPT ![c] = <<>>]
    /\ wr' = [wr EXCEPT ![c] = NoWriter]
    /\ fwd' = [fwd EXCEPT ![c] = NoFwd]
    /\ trace' = [trace EXCEPT ![c] = <<>>]
    /\ UNCHANGED <<rpc, rn, rop, rret, nest>>
    /\ pc' = [pc EXCEPT ![c] = "idle"]
    /\ opName' = [opName EXCEPT ![c] = "none"]
    /\ path' = [path EXCEPT ![c] = "none"]
    /\ plan' = [plan EXCEPT ![c] = [k |-> 0, final |-> "nil"]]
    /\ op' = [op EXCEPT ![OpVar(c)] = NoOp]
    /\ result' = [result EXCEPT ![c] = [val |-> NilVal, size |-> 0]]
    /\ err' = [err EXCEPT ![c] = Nil]
    /\ ret' = [ret EXCEPT ![c] = NoRet]
    /\ started' = [started EXCEPT ![c] = 0]
    /\ implLog' = [implLog EXCEPT ![c] = <<>>]
    /\ consults' = [consults EXCEPT ![c] = 0]
    /\ asked' = [asked EXCEPT ![c] = {}]
    /\ declinedAt' = [declinedAt EXCEPT ![c] = 0]
    /\ wrappers' = [wrappers EXCEPT ![c] = 0]

(* ------------------- FaultTolerantHdfsReader --------------------------- *)
\* the caller holds a reader and is not inside one of its methods
HoldsReader(c) == pc[c] = "done" /\ rd[c] # NoReader /\ rpc[c] = "idle"

\* repositioning a freshly opened sequential stream: skip `offset` bytes
SkipTo(offset) == 0 + offset

\* Read(buffer): a new Operation, then the first raw read
RdStart(c) ==
    /\ HoldsReader(c)
    /\ rd[c].state = "Open"
    /\ \E n \in 1..MaxBuf : rn' = [rn EXCEPT ![c] = n]
    /\ rop' = [rop EXCEPT ![c] = StartOperation(<<c, 0>>)]
    /\ rret' = [rret EXCEPT ![c] = NoRet]
    /\ rpc' = [rpc EXCEPT ![c] = "read"]
    /\ UNCHANGED <<accVars, auxVars, rd, live, rawPos, delivered, faults, skips>>

\* the raw read succeeds with nr bytes: the offset advances by nr and the
\* bytes go to the caller
RdRawOk(c) ==
    /\ rpc[c] = "read"
    /\ LET F == File(rd[c].Impl.path)
           remaining == Len(F) - rawPos[c]
       IN  \E nr \in 1..MaxBuf :
             /\ nr <= rn[c] /\ nr <= remaining
             /\ delivered' = [delivered EXCEPT ![c] =
                                @ \o SubSeq(F, rawPos[c] + 1, rawPos[c] + nr)]
             /\ rawPos' = [rawPos EXCEPT ![c] = @ + nr]
             /\ rd' = [rd EXCEPT ![c].Offset = @ + nr]
             /\ rret' = [rret EXCEPT ![c] =
                           [returned |-> TRUE, n |-> nr, err |-> Nil]]
    /\ rpc' = [rpc EXCEPT ![c] = "rdone"]
    /\ UNCHANGED <<accVars, auxVars, live, rn, rop, faults, skips>>

\* the raw read reports end of file: returned as it is, the reader stays Open
RdRawEof(c) ==
    /\ rpc[c] = "read"
    /\ rawPos[c] >= Len(File(rd[c].Impl.path))
    /\ rret' = [rret EXCEPT ![c] = [returned |-> TRUE, n |-> 0, err |-> EOF]]
    /\ rpc' = [rpc EXCEPT ![c] = "rdone"]
    /\ UNCHANGED <<accVars, auxVars, rd, live, rn, rop, rawPos, delivered, faults, skips>>

\* the raw read fails with a retryable error: the failed stream is
\* discarded and the reader starts reopening
RdRawFail(c) ==
    /\ rpc[c] = "read"
    /\ faults[c] < MaxFaults
    /\ faults' = [faults EXCEPT ![c] = @ + 1]
    /\ live' = [live EXCEPT ![c] = @ \ {rd[c].Impl}]
    /\ rd' = [rd EXCEPT ![c].Impl = NilVal, ![c].state = "Reopening"]
    /\ rpc' = [rpc EXCEPT ![c] = "reopen"]
    /\ UNCHANGED <<accVars, auxVars, rn, rop, rret, rawPos, delivered, skips>>

\* the reopen succeeds: the new stream is positioned at the delivered
\* offset and the original read is tried again
RdReopenOk(c) ==
    /\ rpc[c] = "reopen"
    /\ LET s == [by |-> c, seq |-> 100 + Len(skips[c]) + 1, path |-> rd[c].Path]
       IN  /\ live' = [live EXCEPT ![c] = @ \cup {s}]
           /\ rd' = [rd EXCEPT ![c].Impl = s, ![c].state = "Open"]
           /\ rawPos' = [rawPos EXCEPT ![c] = SkipTo(rd[c].Offset)]
           /\ skips' = [skips EXCEPT ![c] =
                          Append(@, [m |-> Len(delivered[c]),
                                     skipped |-> SkipTo(rd[c].Offset)])]
    /\ rpc' = [rpc EXCEPT ![c] = "read"]
    /\ UNCHANGED <<accVars, auxVars, rn, rop, rret, delivered, faults>>

\* mutant: a reader that gave up reopening is left waiting for a stream
GaveUpStateReopening == "Reopening"

\* the state of a reader whose reopen has failed for good
GaveUpState == "Closed"

\* the reopen fails: a benign error is final; a retryable one is retried
\* while the Operation agrees, after which the error reaches the caller
\* and the reader is Closed
RdReopenFail(c) ==
    /\ rpc[c] = "reopen"
    /\ \E kind \in {"retryable", "benign"} :
         LET e  == [kind |-> kind, by |-> c, seq |-> 100 + rop[c].Attempt]
             sr == ShouldRetry(rop[c])
         IN  IF IsSuccessOrBenignError(e) \/ ~sr.retry
             THEN /\ rret' = [rret EXCEPT ![c] =
                                [returned |-> TRUE, n |-> 0, err |-> e]]
                  /\ rd' = [rd EXCEPT ![c].state = GaveUpState]
                  /\ rpc' = [rpc EXCEPT ![c] = "rdone"]
                  /\ UNCHANGED rop
             ELSE /\ rop' = [rop EXCEPT ![c] = sr.op]
                  /\ UNCHANGED <<rret, rd, rpc>>
    /\ UNCHANGED <<accVars, auxVars, live, rn, rawPos, delivered, faults, skips>>

\* Read returns to its caller
RdReturn(c) ==
    /\ rpc[c] = "rdone"
    /\ rpc' = [rpc EXCEPT ![c] = "idle"]
    /\ rop' = [rop EXCEPT ![c] = NoOp]
    /\ rn' = [rn EXCEPT ![c] = 0]
    /\ UNCHANGED <<accVars, auxVars, rd, live, rret, rawPos, delivered, faults, skips>>

\* Close(): closes the current raw stream; closing twice changes nothing
RdClose(c) ==
    /\ HoldsReader(c)
    /\ live' = [live EXCEPT ![c] = @ \ {rd[c].Impl}]
    /\ rd' = [rd EXCEPT ![c].Impl = NilVal, ![c].state = "Closed"]
    /\ UNCHANGED <<accVars, auxVars, readVars>>

(* ------------- FaultTolerantHdfsWriter and raw streams ----------------- *)
\* the caller holds a writer
HoldsWriter(c) == pc[c] = "done" /\ wr[c] # NoWriter

\* the caller holds the stream a successful OpenReadForRandomAccess returned
HoldsRandom(c) ==
    /\ pc[c] = "done" /\ opName[c] = "OpenReadForRandomAccess"
    /\ ret[c].err = Nil

\* one call passed on to the raw stream, whose error e comes back as it is
Forwarded(f, what, e) ==
    [calls |-> f.calls + 1, rawCalls |-> f.rawCalls + 1, last |-> what,
     rawErr |-> e, err |-> e]

\* the outcomes of a call on a raw stream
RawErrs(c, f) ==
    {Nil} \cup {[kind |-> k, by |-> c, seq |-> 200 + f.rawCalls + 1] :
                   k \in {"retryable", "benign"}}

\* Write(buffer) on the writer: this.Impl.Write(buffer)
WrWrite(c) ==
    /\ HoldsWriter(c)
    /\ fwd[c].calls < MaxStreamCalls
    /\ \E e \in RawErrs(c, fwd[c]) :
         fwd' = [fwd EXCEPT ![c] = Forwarded(@, "Write", e)]
    /\ UNCHANGED <<accVars, rd, live, readVars, wr, trace, nest>>

\* Close() on the writer: this.Impl.Close()
WrClose(c) ==
    /\ HoldsWriter(c)
    /\ fwd[c].calls < MaxStreamCalls
    /\ \E e \in RawErrs(c, fwd[c]) :
         fwd' = [fwd EXCEPT ![c] = Forwarded(@, "Close", e)]
    /\ live' = [live EXCEPT ![c] = @ \ {wr[c].Impl}]
    /\ UNCHANGED <<accVars, rd, readVars, wr, trace, nest>>

\* the caller reads from the random access stream it was handed; the
\* accessor takes no part in the call
RaRead(c) ==
    /\ HoldsRandom(c)
    /\ fwd[c].calls < MaxStreamCalls
    /\ \E e \in RawErrs(c, fwd[c]) :
         fwd' = [fwd EXCEPT ![c] = Forwarded(@, "ReadAt", e)]
    /\ UNCHANGED <<accVars, rd, live, readVars, wr, trace, nest>>

(* ------ a FaultTolerantHdfsAccessor wrapping another one --------------- *)
\* The outer accessor (policy budget MaxAttempts) has as Impl an inner
\* accessor (policy budget InnerMaxAttempts) whose Impl is the raw one.
NestPath(o) == IF o = "EnsureConnected" THEN "none" ELSE "/a"

\* a caller enters a method of the outer accessor
NCall ==
    /\ nest.pc = "idle"
    /\ \E o \in Ops, pl \in Plans :
         nest' = [NestIdle EXCEPT !.pc = "ostart", !.o = o, !.pl = pl]
    /\ UNCHANGED <<accVars, rd, live, readVars, wr, fwd, trace>>

\* outer: op := this.RetryPolicy.StartOperation()
NOuterStart ==
    /\ nest.pc = "ostart"
    /\ nest' = [nest EXCEPT !.pc = "ocall",
                            !.oop = StartOperation(<<"outer", 1>>)]
    /\ UNCHANGED <<accVars, rd, live, readVars, wr, fwd, trace>>

\* outer: this.Impl.<Method>(path) enters the same method of the inner
NOuterAttempt ==
    /\ nest.pc = "ocall"
    /\ nest' = [nest EXCEPT !.pc = "istart", !.inner = @ + 1]
    /\ UNCHANGED <<accVars, rd, live, readVars, wr, fwd, trace>>

\* inner: op := this.RetryPolicy.StartOperation()
NInnerStart ==
    /\ nest.pc = "istart"
    /\ nest' = [nest EXCEPT !.pc = "iattempt",
                            !.iop = StartOperation(<<"inner", nest.inner>>)]
    /\ UNCHANGED <<accVars, rd, live, readVars, wr, fwd, trace>>

\* inner: this.Impl.<Method>(path) on the raw accessor
NInnerAttempt ==
    /\ nest.pc = "iattempt"
    /\ LET r == ImplCall("raw", nest.o, NestPath(nest.o), nest.pl, nest.raw + 1)
       IN  nest' = [nest EXCEPT !.pc = "idecide", !.raw = @ + 1,
                                !.ires = [val |-> r.val, size |-> r.size],
                                !.ierr = r.err]
    /\ UNCHANGED <<accVars, rd, live, readVars, wr, fwd, trace>>

\* inner: the if of the loop body; its return is what the outer's call on
\* Impl returns
NInnerDecide ==
    /\ nest.pc = "idecide"
    /\ LET o  == nest.o
           e  == nest.ierr
           sr == ShouldRetryWithin(nest.iop, InnerMaxAttempts)
           rv == ReturnValue(o, NestPath(o), nest.ires, e)
           back == [nest EXCEPT !.pc = "odecide",
                                !.ores = [val |-> rv.val, size |-> rv.size],
                                !.oerr = rv.err]
       IN  IF ReturnsEarly(o, e)
           THEN nest' = back
           ELSE IF ExitsLoop(o, e, sr.retry)
                THEN nest' = [back EXCEPT !.iop = sr.op]
                ELSE nest' = [nest EXCEPT !.pc = "iattempt", !.iop = sr.op]
    /\ UNCHANGED <<accVars, rd, live, readVars, wr, fwd, trace>>

\* outer: the if of the loop body
NOuterDecide ==
    /\ nest.pc = "odecide"
    /\ LET o  == nest.o
           e  == nest.oerr
           sr == ShouldRetryWithin(nest.oop, MaxAttempts)
           rv == ReturnValue(o, NestPath(o), nest.ores, e)
           out == [nest EXCEPT !.pc = "done", !.ret = rv]
       IN  IF ReturnsEarly(o, e)
           THEN nest' = out
           ELSE IF ExitsLoop(o, e, sr.retry)
                THEN nest' = [out EXCEPT !.oop = sr.op]
                ELSE nest' = [nest EXCEPT !.pc = "ocall", !.oop = sr.op]
    /\ UNCHANGED <<accVars, rd, live, readVars, wr, fwd, trace>>

\* the caller takes the return value
NFinish ==
    /\ nest.pc = "done"
    /\ nest' = NestIdle
    /\ UNCHANGED <<accVars, rd, live, readVars, wr, fwd, trace>>

Next ==
    \/ \E c \in Callers : Call(c)
    \/ \E c \in Callers : StartOp(c)
    \/ \E c \in Callers : Attempt(c)
    \/ \E c \in Callers : Decide(c)
    \/ \E c \in Callers : Finish(c)

Spec == Init /\ [][Next]_vars

\* one caller making calls, each step of which is eventually taken: the
\* method runs on its caller's thread and every call on Impl returns
NextOne ==
    \/ Call(ReaderUser)
    \/ StartOp(ReaderUser)
    \/ Attempt(ReaderUser)
    \/ Decide(ReaderUser)
    \/ Finish(ReaderUser)

SpecLive ==
    /\ Init /\ [][NextOne]_vars
    /\ WF_vars(StartOp(ReaderUser))
    /\ WF_vars(Attempt(ReaderUser))
    /\ WF_vars(Decide(ReaderUser))

\* calls on an accessor that wraps another fault tolerant accessor
NextNested ==
    \/ NCall
    \/ NOuterStart
    \/ NOuterAttempt
    \/ NInnerStart
    \/ NInnerAttempt
    \/ NInnerDecide
    \/ NOuterDecide
    \/ NFinish

SpecNested == Init /\ [][NextNested]_vars

\* one caller opens a file for reading and reads it through the reader
NextReader ==
    \/ CallOpenRead(ReaderUser)
    \/ StartOp(ReaderUser)
    \/ Attempt(ReaderUser)
    \/ Decide(ReaderUser)
    \/ Finish(ReaderUser)
    \/ RdStart(ReaderUser)
    \/ RdRawOk(ReaderUser)
    \/ RdRawEof(ReaderUser)
    \/ RdRawFail(ReaderUser)
    \/ RdReopenOk(ReaderUser)
    \/ RdReopenFail(ReaderUser)
    \/ RdReturn(ReaderUser)
    \/ RdClose(ReaderUser)

SpecReader == Init /\ [][NextReader]_vars

\* one caller opens a file in any of the three ways and uses the stream
NextStreams ==
    \/ NextReader
    \/ CallOpenWrite(ReaderUser)
    \/ CallOpenRandom(ReaderUser)
    \/ WrWrite(ReaderUser)
    \/ WrClose(ReaderUser)
    \/ RaRead(ReaderUser)

SpecStreams == Init /\ [][NextStreams]_vars

(* ------------------------- properties ---------------------------------- *)
InCall(c) == pc[c] \in {"attempt", "decide", "done"}

Done(c) == pc[c] = "done"

Calls(c) == Len(implLog[c])

LastCall(c) == implLog[c][Len(implLog[c])]

\* every call on Impl made by c's logical call is the call's own method on
\* the call's own path
SameMethod(c) ==
    \A i \in 1..Calls(c) :
        implLog[c][i].op = opName[c] /\ implLog[c][i].path = path[c]

\* what a successful return of method o hands out for the raw result v
Delivered(c, v) ==
    CASE opName[c] = "OpenRead" -> IsWrapper(ret[c].val) /\ ret[c].val.Impl = v
      [] opName[c] = "OpenWrite" -> IsWrapper(ret[c].val) /\ ret[c].val.Impl = v
      [] OTHER -> ret[c].val = v

\* C1: a call whose wrapped accessor fails k times with a retryable error
\* and then succeeds, k below the attempt budget, returns success after
\* exactly k+1 calls of its own method on the wrapped accessor.
C1_RetryThenSuccess ==
    \A c \in Callers :
        (Done(c) /\ plan[c].final = "nil" /\ plan[c].k < MaxAttempts) =>
            /\ Calls(c) = plan[c].k + 1
            /\ SameMethod(c)
            /\ \A i \in 1..plan[c].k : implLog[c][i].err.kind = "retryable"
            /\ LastCall(c).err = Nil
            /\ ret[c].err = Nil
            /\ Delivered(c, LastCall(c).val)

C1_Witness ==
    \E c \in Callers :
        /\ Done(c) /\ opName[c] = "Mkdir" /\ plan[c] = [k |-> 2, final |-> "nil"]
        /\ Calls(c) = 3 /\ ret[c].err = Nil

\* C2: when the wrapped accessor always fails with a retryable error the
\* call makes at most MaxAttempts calls on it and returns the error of the
\* last one; after ShouldRetry has answered false no further call is made.
C2_Exhaustion ==
    \A c \in Callers :
        /\ plan[c].final = "retryable" =>
              /\ Calls(c) <= MaxAttempts
              /\ Done(c) => /\ ret[c].err = LastCall(c).err
                            /\ ret[c].err.kind = "retryable"
                            /\ declinedAt[c] = Calls(c)
        /\ declinedAt[c] # 0 => Calls(c) = declinedAt[c]

C2_Witness ==
    \E c \in Callers :
        /\ Done(c) /\ plan[c].final = "retryable"
        /\ declinedAt[c] = MaxAttempts /\ Calls(c) = MaxAttempts
        /\ ret[c].err = [kind |-> "retryable", by |-> c, seq |-> MaxAttempts]

\* C3: when the first call on the wrapped accessor succeeds the method
\* returns its result after that single call, without asking the Operation.
C3_FirstSuccess ==
    \A c \in Callers :
        (plan[c].k = 0 /\ plan[c].final = "nil") =>
            /\ Calls(c) <= 1
            /\ consults[c] = 0
            /\ Done(c) => /\ Calls(c) = 1
                          /\ ret[c].err = Nil
                          /\ Delivered(c, implLog[c][1].val)

C3_Witness ==
    \E c \in Callers :
        /\ Done(c) /\ opName[c] = "ReadDir" /\ plan[c] = [k |-> 0, final |-> "nil"]
        /\ Calls(c) = 1 /\ ret[c].val = implLog[c][1].val

\* C4: when the first call on the wrapped accessor fails with a benign
\* error the method returns that error after that single call, and the
\* Operation is asked at most once.
C4_FirstBenign ==
    \A c \in Callers :
        (plan[c].k = 0 /\ plan[c].final = "benign") =>
            /\ Calls(c) <= 1
            /\ consults[c] <= 1
            /\ Done(c) => /\ Calls(c) = 1
                          /\ ret[c].err = implLog[c][1].err
                          /\ ret[c].err.kind = "benign"

C4_Witness ==
    \E c \in Callers :
        /\ Done(c) /\ opName[c] = "Stat" /\ plan[c] = [k |-> 0, final |-> "benign"]
        /\ Calls(c) = 1 /\ ret[c].err.kind = "benign"

\* C5: a benign error ends the call at whatever attempt it appears: it is
\* the last call made, it is returned as it is, and it is not shown to
\* ShouldRetry, so the Operation's attempt counter does not move.
C5_BenignNeverRetried ==
    \A c \in Callers :
        \A i \in 1..Calls(c) :
            implLog[c][i].err.kind = "benign" =>
                /\ i = Calls(c)
                /\ consults[c] = i - 1
                /\ op[OpVar(c)].Attempt = i
                /\ Done(c) => ret[c].err = implLog[c][i].err

C5_Witness ==
    \E c \in Callers :
        /\ Done(c) /\ opName[c] = "OpenWrite" /\ plan[c] = [k |-> 2, final |-> "benign"]
        /\ Calls(c) = 3 /\ consults[c] = 2
        /\ ret[c].err = [kind |-> "benign", by |-> c, seq |-> 3]

\* C6: the error a method returns is the error of the most recent call it
\* made on the wrapped accessor, never another value.
C6_LastErrorReturned ==
    \A c \in Callers :
        Done(c) => /\ ret[c].returned
                   /\ Calls(c) >= 1
                   /\ ret[c].err = LastCall(c).err

C6_Witness ==
    \E c \in Callers :
        /\ Done(c) /\ opName[c] = "OpenRead" /\ Calls(c) = MaxAttempts
        /\ ret[c].err = [kind |-> "retryable", by |-> c, seq |-> MaxAttempts]
        /\ implLog[c][1].err # ret[c].err

\* C7: a call creates one Operation, before its first attempt; every retry
\* decision is asked of it, and its attempt counter counts every retry of
\* the call (it is never reset by looping back).
C7_OneOperationPerCall ==
    \A c \in Callers :
        /\ pc[c] = "start" => Calls(c) = 0
        /\ InCall(c) =>
              /\ started[c] = 1
              /\ asked[c] \subseteq {<<c, 1>>}
              /\ op[OpVar(c)].id = <<c, 1>>
              /\ op[OpVar(c)].Attempt =
                     1 + consults[c] - (IF declinedAt[c] # 0 THEN 1 ELSE 0)

C7_Witness ==
    \E c \in Callers :
        /\ pc[c] = "attempt" /\ opName[c] = "Stat" /\ consults[c] = 2
        /\ started[c] = 1 /\ op[OpVar(c)].Attempt = 3 /\ asked[c] = {<<c, 1>>}

\* C8: concurrent calls never share an Operation: each call's failures
\* count against its own budget only, so each makes at most MaxAttempts
\* calls and one that succeeds within its budget returns success whatever
\* the other calls go through.
C8_NoSharedOperation ==
    \A c \in Callers :
        /\ Calls(c) <= MaxAttempts
        /\ InCall(c) => op[OpVar(c)].id[1] = c
        /\ \A d \in Callers \ {c} :
              (InCall(c) /\ InCall(d)) => op[OpVar(c)].id # op[OpVar(d)].id
        /\ (Done(c) /\ plan[c].final = "nil" /\ plan[c].k < MaxAttempts) =>
              ret[c].err = Nil
        /\ (Done(c) /\ ret[c].err.kind = "retryable") => Calls(c) = MaxAttempts

C8_Witness ==
    \E c, d \in Callers :
        /\ c # d /\ Done(c) /\ Done(d)
        /\ plan[c] = [k |-> MaxAttempts - 1, final |-> "nil"] /\ ret[c].err = Nil
        /\ plan[d].final = "retryable" /\ ret[d].err.kind = "retryable"
        /\ Calls(c) = MaxAttempts /\ Calls(d) = MaxAttempts

\* C9: a successful OpenRead returns one reader wrapper at offset 0 over
\* the stream of the successful attempt, with the caller's path, the
\* wrapped accessor and the retry policy; no wrapper exists otherwise.
C9_OpenReadWraps ==
    \A c \in Callers :
        opName[c] = "OpenRead" =>
            IF Done(c) /\ ret[c].err = Nil
            THEN /\ ret[c].val = [Path |-> path[c], Impl |-> LastCall(c).val,
                                  HdfsAccessor |-> "Impl",
                                  RetryPolicy |-> "RetryPolicy", Offset |-> 0]
                 /\ LastCall(c).err = Nil
                 /\ wrappers[c] = 1
            ELSE /\ wrappers[c] = 0
                 /\ Done(c) => ret[c].val = NilVal

C9_Witness ==
    \E c \in Callers :
        /\ Done(c) /\ opName[c] = "OpenRead" /\ path[c] = "/b"
        /\ plan[c] = [k |-> 1, final |-> "nil"] /\ wrappers[c] = 1
        /\ ret[c].val.Impl = [by |-> c, seq |-> 2, path |-> "/b"]

\* C10: whatever retryable mid-stream failures and reopens happen, the
\* bytes handed to the caller are the file's bytes from offset 0 in order,
\* without gap or repetition, and a stream reopened after m delivered
\* bytes is positioned by skipping exactly m bytes.
C10_ReaderStreamIntact ==
    \A c \in Callers :
        rd[c] # NoReader =>
            /\ Len(delivered[c]) <= Len(File(path[c]))
            /\ delivered[c] = SubSeq(File(path[c]), 1, Len(delivered[c]))
            /\ rd[c].Offset = Len(delivered[c])
            /\ \A i \in 1..Len(skips[c]) : skips[c][i].skipped = skips[c][i].m
            /\ rd[c].state = "Open" => rawPos[c] = Len(delivered[c])
            /\ (rpc[c] = "rdone" /\ rret[c].err = EOF) =>
                    delivered[c] = File(path[c])

C10_Witness ==
    \E c \in Callers :
        /\ path[c] = "/b" /\ delivered[c] = File("/b")
        /\ faults[c] = 2 /\ Len(skips[c]) = 2
        /\ skips[c][1].m = 1 /\ skips[c][2].m = 2
        /\ rpc[c] = "rdone" /\ rret[c].err = EOF

\* C11: OpenReadForRandomAccess retries its open, and on success hands
\* out the raw stream and size of the successful attempt, not a wrapper;
\* a failing read on that stream reaches the caller as it is, and the
\* accessor makes no further call and opens no other stream.
C11_RandomAccessUnwrapped ==
    \A c \in Callers :
        (opName[c] = "OpenReadForRandomAccess" /\ Done(c) /\ ret[c].err = Nil) =>
            /\ Calls(c) = plan[c].k + 1
            /\ LastCall(c).err = Nil
            /\ ret[c].val = LastCall(c).val
            /\ ~IsWrapper(ret[c].val)
            /\ ret[c].size = Len(File(path[c]))
            /\ wrappers[c] = 0 /\ rd[c] = NoReader /\ wr[c] = NoWriter
            /\ live[c] = {ret[c].val}
            /\ fwd[c].rawCalls = fwd[c].calls
            /\ fwd[c].err = fwd[c].rawErr

C11_Witness ==
    \E c \in Callers :
        /\ opName[c] = "OpenReadForRandomAccess" /\ Done(c)
        /\ plan[c] = [k |-> 2, final |-> "nil"] /\ Calls(c) = 3
        /\ ret[c].val = [by |-> c, seq |-> 3, path |-> path[c]]
        /\ fwd[c].calls = 1 /\ fwd[c].last = "ReadAt"
        /\ fwd[c].err.kind = "retryable"

\* C12: OpenWrite retries only the open; the writer it returns holds just
\* the raw stream of the successful attempt, and every Write or Close on it
\* is one call on that raw stream whose error, retryable or not, is what
\* the caller gets; the accessor is not called again.
C12_WriterForwards ==
    \A c \in Callers :
        (opName[c] = "OpenWrite" /\ Done(c) /\ ret[c].err = Nil) =>
            /\ Calls(c) = plan[c].k + 1
            /\ ret[c].val = [Impl |-> LastCall(c).val]
            /\ wr[c] = ret[c].val
            /\ wrappers[c] = 1 /\ rd[c] = NoReader
            /\ fwd[c].rawCalls = fwd[c].calls
            /\ fwd[c].err = fwd[c].rawErr
            /\ live[c] \subseteq {wr[c].Impl}

C12_Witness ==
    \E c \in Callers :
        /\ opName[c] = "OpenWrite" /\ Done(c)
        /\ plan[c] = [k |-> 1, final |-> "nil"] /\ Calls(c) = 2
        /\ fwd[c].calls = 2 /\ fwd[c].rawCalls = 2 /\ fwd[c].last = "Write"
        /\ fwd[c].err = [kind |-> "retryable", by |-> c, seq |-> 202]

\* C13: when a Read hits a retryable error and the reopen uses up its
\* attempts, Read returns the last reopen error to its caller and the
\* reader is Closed; a Closed reader stays Closed, and Close on it changes
\* nothing.
C13_ReopenExhaustionCloses ==
    /\ [](\A c \in Callers :
            /\ (rpc[c] = "rdone" /\ rret[c].err.kind = "retryable") =>
                  /\ rd[c].state = "Closed"
                  /\ rop[c].Attempt = MaxAttempts
                  /\ rret[c].err = [kind |-> "retryable", by |-> c,
                                    seq |-> 100 + MaxAttempts]
                  /\ faults[c] >= 1
            /\ (rd[c] # NoReader /\ rd[c].state = "Closed") =>
                  /\ live[c] = {}
                  /\ rpc[c] \in {"idle", "rdone"})
    /\ [][\A c \in Callers :
            (rd[c] # NoReader /\ rd[c].state = "Closed") =>
                /\ rd'[c] = rd[c] \/ rd'[c] = NoReader
                /\ live'[c] = live[c]
                /\ delivered'[c] = delivered[c] \/ rd'[c] = NoReader]_vars

C13_Witness ==
    \E c \in Callers :
        /\ rpc[c] = "rdone" /\ rd[c].state = "Closed"
        /\ rret[c].err = [kind |-> "retryable", by |-> c, seq |-> 100 + MaxAttempts]
        /\ faults[c] = 2 /\ Len(delivered[c]) = 2

\* C14: a reader or writer never has more than one raw stream open: the
\* stream of an Open reader is its only one, a reader that is reopening
\* or closed has none, however many reopen attempts failed.
C14_OneLiveStream ==
    \A c \in Callers :
        /\ Cardinality(live[c]) <= 1
        /\ rd[c] # NoReader =>
              /\ rd[c].state = "Open" => live[c] = {rd[c].Impl}
              /\ rd[c].state \in {"Reopening", "Closed"} =>
                    live[c] = {} /\ rd[c].Impl = NilVal
        /\ wr[c] # NoWriter => live[c] \subseteq {wr[c].Impl}

C14_Witness ==
    \E c \in Callers :
        /\ rd[c] # NoReader /\ rd[c].state = "Open" /\ faults[c] = 2
        /\ rop[c].Attempt = MaxAttempts
        /\ live[c] = {[by |-> c, seq |-> 102, path |-> path[c]]}

\* the positions of trace t at which ShouldRetry was asked
Asks(t) == {i \in 1..Len(t) : t[i].ev = "ask"}

\* the positions of trace t at which an attempt ended in a retryable error
RetryableAttempts(t) ==
    {i \in 1..Len(t) : t[i].ev = "attempt" /\ t[i].err.kind = "retryable"}

\* C15: the events of a call are StartOperation first, then attempts each
\* followed by a return or by a retry decision; ShouldRetry is asked only
\* right after an attempt that ended in a retryable error and is given
\* that error; after the answer true comes another attempt, after false
\* the return; so there are as many decisions as retryable attempts.
C15_EventOrder ==
    \A c \in Callers :
        LET t == trace[c]
            n == Len(t)
        IN  /\ InCall(c) => n >= 1
            /\ \A i \in 1..n :
                 /\ (t[i].ev = "start") <=> (i = 1)
                 /\ t[i].ev = "return" => (i = n /\ Done(c))
                 /\ t[i].ev = "attempt" =>
                       /\ t[i-1].ev = "start" \/
                            (t[i-1].ev = "ask" /\ t[i-1].answer)
                       /\ i = n => pc[c] = "decide"
                       /\ i < n => IF t[i].err.kind = "retryable"
                                   THEN t[i+1].ev = "ask"
                                   ELSE t[i+1].ev = "return"
                 /\ t[i].ev = "ask" =>
                       /\ t[i-1].ev = "attempt"
                       /\ t[i-1].err.kind = "retryable"
                       /\ t[i].err = t[i-1].err
                       /\ t[i].op = opName[c] /\ t[i].path = path[c]
                       /\ IF t[i].answer
                          THEN IF i = n THEN pc[c] = "attempt"
                               ELSE t[i+1].ev = "attempt"
                          ELSE i < n /\ t[i+1].ev = "return"
            /\ Cardinality(Asks(t)) = consults[c]
            /\ pc[c] # "decide" =>
                  Cardinality(Asks(t)) = Cardinality(RetryableAttempts(t))

C15_Witness ==
    \E c \in Callers :
        /\ Done(c) /\ opName[c] = "ReadDir" /\ plan[c] = [k |-> 0, final |-> "retryable"]
        /\ Len(trace[c]) = 2 * MaxAttempts + 2
        /\ trace[c][3].ev = "ask" /\ trace[c][3].answer
        /\ trace[c][2 * MaxAttempts + 1].ev = "ask"
        /\ ~trace[c][2 * MaxAttempts + 1].answer

\* C16: every call returns, given that each attempt returns and that
\* ShouldRetry stops saying yes; the loop itself sets no limit: it goes
\* round exactly as long as the Operation says yes, and returns only on
\* a nil or benign error or when the Operation has said no.
C16_CallsReturn ==
    /\ [](\A c \in Callers :
            /\ Done(c) => \/ IsSuccessOrBenignError(ret[c].err)
                           \/ (declinedAt[c] = Calls(c) /\ Calls(c) >= 1)
            /\ (pc[c] = "attempt" /\ Calls(c) >= 1) =>
                  /\ consults[c] = Calls(c)
                  /\ declinedAt[c] = 0
                  /\ op[OpVar(c)].Attempt = Calls(c) + 1)
    /\ \A c \in Callers : (pc[c] = "start") ~> (pc[c] = "done")

C16_Witness ==
    \E c \in Callers :
        /\ Done(c) /\ opName[c] = "EnsureConnected"
        /\ plan[c].final = "retryable"
        /\ Calls(c) = MaxAttempts /\ declinedAt[c] = MaxAttempts
        /\ consults[c] = MaxAttempts

\* C17: an open method never returns a stream together with an error: on
\* a failing return the stream is nil and the size 0, whatever the last
\* attempt returned next to its error; ReadDir and Stat return the result
\* of the last attempt next to its error.
C17_NoStreamWithError ==
    \A c \in Callers :
        (Done(c) /\ ret[c].err # Nil) =>
            /\ opName[c] \in OpenOps =>
                  /\ ret[c].val = NilVal
                  /\ ret[c].size = 0
                  /\ wrappers[c] = 0
            /\ opName[c] \in {"ReadDir", "Stat"} =>
                  /\ ret[c].val = LastCall(c).val
                  /\ ret[c].err = LastCall(c).err

C17_Witness ==
    \E c, d \in Callers :
        /\ Done(c) /\ opName[c] = "OpenReadForRandomAccess"
        /\ ret[c].err.kind = "retryable" /\ ret[c].val = NilVal /\ ret[c].size = 0
        /\ result[c].val # NilVal /\ result[c].size = 3
        /\ Done(d) /\ opName[d] = "Stat" /\ ret[d].err.kind = "benign"
        /\ ret[d].val = [by |-> d, seq |-> 2, path |-> path[d]]

\* C18: with an outer accessor of budget MaxAttempts over an inner one of
\* budget InnerMaxAttempts, a call over a raw accessor that always fails
\* makes at most (here exactly) MaxAttempts * InnerMaxAttempts raw calls
\* and returns the last raw error as it is: the outer loop treats the
\* inner's final error like any retryable error; a benign raw error ends
\* the call after the raw call that produced it.
C18_NestedBudget ==
    /\ nest.raw <= MaxAttempts * InnerMaxAttempts
    /\ nest.inner <= MaxAttempts
    /\ nest.pc = "done" => nest.ret.err = nest.ierr
    /\ (nest.pc = "odecide" /\ nest.oerr.kind = "retryable") =>
          /\ nest.iop.Attempt = InnerMaxAttempts
          /\ nest.oerr = [kind |-> "retryable", by |-> "raw", seq |-> nest.raw]
          /\ nest.raw = nest.inner * InnerMaxAttempts
    /\ (nest.pc = "done" /\ nest.pl.final = "retryable") =>
          /\ nest.raw = MaxAttempts * InnerMaxAttempts
          /\ nest.inner = MaxAttempts
          /\ nest.ret.err = [kind |-> "retryable", by |-> "raw", seq |-> nest.raw]
    /\ (nest.pl.k = 0 /\ nest.pl.final = "benign") =>
          /\ nest.raw <= 1
          /\ nest.pc = "done" =>
                /\ nest.raw = 1 /\ nest.inner = 1
                /\ nest.ret.err = [kind |-> "benign", by |-> "raw", seq |-> 1]

C18_Witness ==
    /\ nest.pc = "done" /\ nest.o = "Stat" /\ nest.pl.final = "retryable"
    /\ nest.raw = MaxAttempts * InnerMaxAttempts
    /\ nest.oop.Attempt = MaxAttempts /\ nest.iop.Attempt = InnerMaxAttempts
    /\ nest.ret.err.seq = MaxAttempts * InnerMaxAttempts
====
